---- MODULE Spec2Model ----
(***************************************************************************)
(* Model of examples/mask_rcnn/shapes_loader.py (class Shapes, the         *)
(* synthetic shapes sampler) and examples/efficientdet/anchors.py (the    *)
(* anchor generator), and of examples/efficientdet/detection.py (class     *)
(* DetectSingleShotEfficientDet).                                          *)
(*                                                                         *)
(* SpecShapes  : one execution of Shapes.load_sample, one action per step  *)
(*               of the method.                                            *)
(* SpecAnchors : one execution of build_anchors, one action per iteration  *)
(*               of its loop over the branches and one for its return.     *)
(* SpecDetect  : DetectSingleShotEfficientDet.__init__ followed by one      *)
(*               execution of call, one action per statement of call.       *)
(*                                                                         *)
(* Arrays are sequences indexed from 1, so channel / row / branch k of the *)
(* code is element k + 1 here.  A mask channel (an H x W array of 0 / 1)   *)
(* is the set of its pixels that hold a nonzero value.                      *)
(***************************************************************************)
EXTENDS Integers, Sequences, FiniteSets, TLC

VARIABLES
    pc,             \* position inside Shapes.load_sample
    class_names,    \* self.class_names
    image_size,     \* self.image_size = (H, W)
    max_num_shapes, \* self.max_num_shapes
    iou_thresh,     \* self.iou_thresh, a rational <<numerator, denominator>>
    N,              \* local `N` of _sample_shapes, the number of shapes drawn
    shapes,         \* local `shapes` of load_sample
    boxes,          \* local `boxes` of load_sample
    class_masks,    \* local `class_masks` of _draw_masks, a set per channel
    masks,          \* the array returned by _draw_masks, one set per channel
    box_data        \* sample['box_data']

shapeVars == <<pc, class_names, image_size, max_num_shapes, iou_thresh, N,
               shapes, boxes, class_masks, masks, box_data>>

VARIABLES
    a_pc,           \* position inside build_anchors
    image_shape,    \* argument image_shape
    branches,       \* argument branches, the .shape of every branch
    num_scales,     \* argument num_scales
    aspect_ratios,  \* argument aspect_ratios, rationals <<num, den>>
    scale,          \* argument scale
    branch_arg,     \* loop variable of build_anchors (first branch is 1)
    anchor_boxes,   \* local `anchor_boxes`, the list of per-branch arrays
    anchors         \* the array build_anchors returns

anchorVars == <<a_pc, image_shape, branches, num_scales, aspect_ratios, scale,
                branch_arg, anchor_boxes, anchors>>

VARIABLES
    d_pc,               \* position inside __init__ / call
    model,              \* argument model
    score_thresh,       \* argument score_thresh, a rational
    nms_thresh,         \* argument nms_thresh, a rational
    preprocess,         \* argument preprocess
    postprocess,        \* argument postprocess
    draw,               \* argument draw
    self,               \* the attributes of the instance that are set
    call_image,         \* argument image of call
    preprocessed_image, \* local `preprocessed_image` of call
    image_scales,       \* local `image_scales` of call
    outputs,            \* local `outputs` of call
    boxes2D,            \* local `boxes2D` of call
    returned            \* the value call returns

detectVars == <<d_pc, model, score_thresh, nms_thresh, preprocess, postprocess,
                draw, self, call_image, preprocessed_image, image_scales,
                outputs, boxes2D, returned>>

vars == <<shapeVars, anchorVars, detectVars>>

----------------------------------------------------------------------------
(* Bounds of the model *)

\* largest max_num_shapes a Shapes loader is constructed with
MaxNumShapes == 2

\* class_names == 'all' in Shapes.__init__
all_class_names == <<"BG", "square", "circle", "triangle">>

\* the Shapes loaders the model constructs: their image_size (H, W) and
\* class_names
Loaders == {[image_size |-> <<64, 64>>, class_names |-> all_class_names],
            [image_size |-> <<80, 41>>, class_names |-> all_class_names],
            [image_size |-> <<148, 41>>,
             class_names |-> <<"BG", "square", "circle">>]}

\* the iou_thresh values a Shapes loader is constructed with (0.3 is the
\* default of Shapes.__init__)
Thresholds == {<<0, 1>>, <<3, 10>>, <<1, 1>>}

\* largest number of branches build_anchors is called with
MaxBranches == 2

\* largest num_scales build_anchors is called with
MaxScales == 2

\* image_shape values build_anchors is called with; <<4>> and <<4, 4, 3>>
\* are not 2-tuples
ImageShapes == {<<4, 4>>, <<2, 3>>, <<3, 2>>, <<4>>, <<4, 4, 3>>}

\* branch .shape values (batch, H, W, channels) build_anchors is called with
FeatureShapes == {<<1, 2, 2, 8>>, <<1, 1, 2, 8>>, <<1, 2, 3, 8>>}

\* aspect_ratios values build_anchors is called with: [], [1.0], [1.0, 2.0]
\* and [1.0, 2.0, 0.5]
AspectRatioLists == {<<>>, <<<<1, 1>>>>, <<<<1, 1>>, <<2, 1>>>>,
                     <<<<1, 1>>, <<2, 1>>, <<1, 2>>>>}

\* scale values build_anchors is called with
Scales == {4}

----------------------------------------------------------------------------
(* Helpers *)

Min(a, b) == IF a <= b THEN a ELSE b
Max(a, b) == IF a >= b THEN a ELSE b

\* range(n) of Python as the 1-based index set of a sequence of length n
Range(n) == 1..n

----------------------------------------------------------------------------
(* Shapes.__init__ *)

\* self.name_to_arg
name_to_arg(names, name) == CHOOSE k \in 0..(Len(names) - 1) :
                               names[k + 1] = name

\* default of the `offset` argument of _sample_shape / _sample_shapes
offset == 20

----------------------------------------------------------------------------
(* random.randint(a, b): the outcomes the model draws are the two ends of  *)
(* the range; the range is empty (Python raises ValueError) when a > b.    *)
randint(a, b) == {v \in {a, b} : a <= v /\ v <= b}

\* Shapes._sample_shape: the set of values one call can return.  The colour
\* is drawn independently of everything else and only used by _draw_shapes
\* for the image, which the model does not carry.
sample_shape(names, H, W) ==
    {<<shape, <<center_x, center_y, size>>>> :
        shape \in {names[k] : k \in 2..Len(names)},
        center_x \in randint(offset, W - offset - 1),
        center_y \in randint(offset, H - offset - 1),
        size \in randint(offset, H \div 4)}

\* Shapes._sample_shape raises ValueError (an empty randint range)
sample_shape_raises(H, W) ==
    \/ randint(offset, W - offset - 1) = {}
    \/ randint(offset, H - offset - 1) = {}
    \/ randint(offset, H \div 4) = {}

\* _sample_shapes drawing N from one shape too many
sample_shapes_one_more(names, num_shapes, H, W) ==
    UNION {[Range(n) -> sample_shape(names, H, W)] :
              n \in randint(1, num_shapes + 1)}

\* Shapes._sample_shapes: the set of lists one call can return
sample_shapes(names, num_shapes, H, W) ==
    UNION {[Range(n) -> sample_shape(names, H, W)] :
              n \in randint(1, num_shapes)}

\* Shapes._compute_bounding_box
compute_bounding_box(center_x, center_y, size) ==
    <<center_x - size, center_y - size, center_x + size, center_y + size>>

\* Shapes._compute_bounding_boxes
compute_bounding_boxes(shps) ==
    [k \in Range(Len(shps)) |->
        compute_bounding_box(shps[k][2][1], shps[k][2][2], shps[k][2][3])]

----------------------------------------------------------------------------
(* paz.backend.boxes.apply_non_max_suppression, after the specification:   *)
(* a greedy overlap filter; with equal scores the boxes are taken in index *)
(* order, and a box is dropped when its IoU with an already kept box is    *)
(* beyond iou_thresh.                                                      *)

box_area(b) == (b[3] - b[1]) * (b[4] - b[2])

box_intersection(a, b) ==
    Max(Min(a[3], b[3]) - Max(a[1], b[1]), 0)
    * Max(Min(a[4], b[4]) - Max(a[2], b[2]), 0)

\* intersection / union > thresh, in integers
iou_beyond(a, b, thresh) ==
    LET inter == box_intersection(a, b)
        union == box_area(a) + box_area(b) - inter
    IN  inter * thresh[2] > thresh[1] * union

RECURSIVE nms_from(_, _, _, _)
nms_from(bxs, k, kept, thresh) ==
    IF k > Len(bxs) THEN kept
    ELSE IF \E m \in Range(Len(kept)) : iou_beyond(bxs[kept[m]], bxs[k], thresh)
         THEN nms_from(bxs, k + 1, kept, thresh)
         ELSE nms_from(bxs, k + 1, Append(kept, k), thresh)

\* returns <<args, num_boxes>>
apply_non_max_suppression(bxs, thresh) ==
    LET kept == nms_from(bxs, 1, <<>>, thresh)
    IN  <<kept, Len(kept)>>

\* _filter_shapes slicing args one short, args[:num_boxes - 1]
filter_shapes_one_short(bxs, shps, thresh) ==
    LET nms      == apply_non_max_suppression(bxs, thresh)
        box_args == SubSeq(nms[1], 1, nms[2] - 1)
    IN  <<[k \in Range(Len(box_args)) |-> shps[box_args[k]]],
          [k \in Range(Len(box_args)) |-> bxs[box_args[k]]]>>

\* Shapes._filter_shapes: returns <<selected_shapes, boxes[box_args]>>
filter_shapes(bxs, shps, thresh) ==
    LET nms      == apply_non_max_suppression(bxs, thresh)
        box_args == SubSeq(nms[1], 1, nms[2])
    IN  <<[k \in Range(Len(box_args)) |-> shps[box_args[k]]],
          [k \in Range(Len(box_args)) |-> bxs[box_args[k]]]>>

----------------------------------------------------------------------------
(* paz.backend.image.draw: the shape stamped on the image (the pixels of   *)
(* the shape that fall on the H x W canvas are set to the colour).         *)

\* the pixel in column x of row y, as its row-major index in an H x W array
pixel(x, y, W) == y * W + x

canvas_columns(center_x, size, W) ==
    Max(center_x - size, 0)..Min(center_x + size, W - 1)

canvas_rows(center_y, size, H) ==
    Max(center_y - size, 0)..Min(center_y + size, H - 1)

draw_square(image, center, size, H, W) ==
    image \cup {pixel(x, y, W) : x \in canvas_columns(center[1], size, W),
                                 y \in canvas_rows(center[2], size, H)}

draw_circle(image, center, size, H, W) ==
    image \cup
    UNION {{pixel(x, y, W) :
               x \in {c \in canvas_columns(center[1], size, W) :
                        (c - center[1]) * (c - center[1])
                        + (y - center[2]) * (y - center[2]) <= size * size}} :
           y \in canvas_rows(center[2], size, H)}

\* vertices (cx, cy - size), (cx - size, cy + size), (cx + size, cy + size)
draw_triangle(image, center, size, H, W) ==
    image \cup
    UNION {{pixel(x, y, W) :
               x \in {c \in canvas_columns(center[1], size, W) :
                        /\ 2 * (c - center[1]) <= y - (center[2] - size)
                        /\ 2 * (center[1] - c) <= y - (center[2] - size)}} :
           y \in canvas_rows(center[2], size, H)}

\* Shapes._draw_shape with the unit colour (1, 1, 1); `draw` pairs
\* class_names[1:] with [draw_square, draw_circle, draw_triangle] by position
draw_shape(names, image, shape, dimensions, H, W) ==
    LET center   == <<dimensions[1], dimensions[2]>>
        size     == dimensions[3]
        function == name_to_arg(names, shape)
    IN  CASE function = 1 -> draw_square(image, center, size, H, W)
          [] function = 2 -> draw_circle(image, center, size, H, W)
          [] function = 3 -> draw_triangle(image, center, size, H, W)

----------------------------------------------------------------------------
(* Shapes._draw_masks *)

\* lines 107-115: max_num_shapes zero channels, shape k drawn into channel k
draw_class_masks(names, shps, num_channels, H, W) ==
    LET zeros == [k \in Range(num_channels) |-> {}]
    IN  [k \in Range(num_channels) |->
            IF k <= Len(shps)
            THEN draw_shape(names, zeros[k], shps[k][1], shps[k][2], H, W)
            ELSE zeros[k]]

\* the loop body with logical_or in place of logical_xor
occlude_or(msk, i, j) ==
    LET occulusions == msk[i] \cap msk[j]
    IN  [msk EXCEPT ![i] = msk[i] \cup occulusions]

\* the loop body assigning to channel j in place of channel i
occlude_later(msk, i, j) ==
    LET occulusions == msk[i] \cap msk[j]
    IN  [msk EXCEPT ![j] = (msk[j] \ occulusions) \cup (occulusions \ msk[j])]

\* lines 120-121: one pass of the inner loop body for the pair (i, j)
occlude(msk, i, j) ==
    LET occulusions == msk[i] \cap msk[j]
    IN  [msk EXCEPT ![i] = (msk[i] \ occulusions) \cup (occulusions \ msk[i])]

RECURSIVE occlusion_inner(_, _, _)
occlusion_inner(msk, i, j) ==
    IF j > Len(msk) THEN msk
    ELSE occlusion_inner(occlude(msk, i, j), i, j + 1)

RECURSIVE occlusion_outer(_, _)
occlusion_outer(msk, i) ==
    IF i > Len(msk) THEN msk
    ELSE occlusion_outer(occlusion_inner(msk, i, i + 1), i + 1)

\* the occlusion loop with the outer index starting one channel late
resolve_occlusion_late(msk) == occlusion_outer(msk, 2)

\* lines 117-121: the occlusion loop
resolve_occlusion(msk) == occlusion_outer(msk, 1)

\* line 116: np.concatenate(class_masks, axis=-1), the channels side by side
concatenate(channels) == channels

----------------------------------------------------------------------------
(* Shapes.load_sample, step by step *)

\* build_anchors is not running
DetectIdle ==
    /\ d_pc = "idle"
    /\ model = "idle"
    /\ score_thresh = <<0, 1>>
    /\ nms_thresh = <<0, 1>>
    /\ preprocess = [processor |-> "idle", arguments |-> <<>>]
    /\ postprocess = [processor |-> "idle", arguments |-> <<>>]
    /\ draw = FALSE
    /\ self = << >>
    /\ call_image = "idle"
    /\ preprocessed_image = << >>
    /\ image_scales = << >>
    /\ outputs = << >>
    /\ boxes2D = << >>
    /\ returned = << >>

AnchorsIdle ==
    /\ a_pc = "idle"
    /\ image_shape = <<>>
    /\ branches = <<>>
    /\ num_scales = 0
    /\ aspect_ratios = <<>>
    /\ scale = 0
    /\ branch_arg = 0
    /\ anchor_boxes = <<>>
    /\ anchors = <<>>

InitShapes ==
    /\ pc = "start"
    /\ \E loader \in Loaders :
          /\ class_names = loader.class_names
          /\ image_size = loader.image_size
    /\ max_num_shapes \in 1..MaxNumShapes
    /\ iou_thresh \in Thresholds
    /\ N = 0
    /\ shapes = <<>>
    /\ boxes = <<>>
    /\ class_masks = <<>>
    /\ masks = <<>>
    /\ box_data = <<>>
    /\ AnchorsIdle
    /\ DetectIdle

\* line 40
SampleShapes ==
    /\ pc = "start"
    /\ ~sample_shape_raises(image_size[1], image_size[2])
    /\ shapes' \in sample_shapes(class_names, max_num_shapes,
                                 image_size[1], image_size[2])
    /\ N' = Len(shapes')
    /\ pc' = "sampled"
    /\ UNCHANGED <<class_names, image_size, max_num_shapes, iou_thresh, boxes,
                   class_masks, masks, box_data>>
    /\ UNCHANGED <<anchorVars, detectVars>>

\* line 40, random.randint raising ValueError inside _sample_shape
SampleShapesRaises ==
    /\ pc = "start"
    /\ sample_shape_raises(image_size[1], image_size[2])
    /\ pc' = "ValueError"
    /\ UNCHANGED <<class_names, image_size, max_num_shapes, iou_thresh, N,
                   shapes, boxes, class_masks, masks, box_data>>
    /\ UNCHANGED <<anchorVars, detectVars>>

\* line 41
ComputeBoundingBoxes ==
    /\ pc = "sampled"
    /\ boxes' = compute_bounding_boxes(shapes)
    /\ pc' = "boxed"
    /\ UNCHANGED <<class_names, image_size, max_num_shapes, iou_thresh, N,
                   shapes, class_masks, masks, box_data>>
    /\ UNCHANGED <<anchorVars, detectVars>>

\* line 42
FilterShapes ==
    /\ pc = "boxed"
    /\ LET filtered == filter_shapes(boxes, shapes, iou_thresh)
       IN  /\ shapes' = filtered[1]
           /\ boxes' = filtered[2]
    /\ pc' = "filtered"
    /\ UNCHANGED <<class_names, image_size, max_num_shapes, iou_thresh, N,
                   class_masks, masks, box_data>>
    /\ UNCHANGED <<anchorVars, detectVars>>

\* lines 44-49: _draw_masks, then box_data and the returned sample (the
\* image of line 43 is not part of the model)
DrawMasksAndReturn ==
    /\ pc = "filtered"
    /\ class_masks' = draw_class_masks(class_names, shapes, max_num_shapes,
                                       image_size[1], image_size[2])
    /\ masks' = resolve_occlusion(concatenate(class_masks'))
    /\ box_data' = [k \in Range(Len(boxes)) |->
                       boxes[k] \o <<name_to_arg(class_names, shapes[k][1])>>]
    /\ pc' = "done"
    /\ UNCHANGED <<class_names, image_size, max_num_shapes, iou_thresh, N,
                   shapes, boxes>>
    /\ UNCHANGED <<anchorVars, detectVars>>

NextShapes ==
    \/ SampleShapes
    \/ SampleShapesRaises
    \/ ComputeBoundingBoxes
    \/ FilterShapes
    \/ DrawMasksAndReturn

SpecShapes == InitShapes /\ [][NextShapes]_vars

----------------------------------------------------------------------------
(* examples/efficientdet/anchors.py.  Floats are exact rationals           *)
(* <<numerator, denominator>> with a positive denominator; the powers and  *)
(* roots of an anchor's extent are kept as the terms they are built from.  *)

\* r / n for an integer n > 0
RDivInt(r, n) == <<r[1], r[2] * n>>

\* r = q
REq(r, q) == r[1] * q[2] = q[1] * r[2]

\* the least integer >= a / b, for b > 0
Ceil(a, b) == -((-a) \div b)

\* np.arange(start, stop, step) for rationals start, step > 0 and an integer
\* stop: ceil((stop - start) / step) values start + i * step
arange(start, stop, step) ==
    LET length == Max(Ceil((stop * start[2] - start[1]) * step[2],
                           start[2] * step[1]), 0)
    IN  [i \in Range(length) |->
            <<start[1] * step[2] + (i - 1) * step[1] * start[2],
              start[2] * step[2]>>]

\* np.repeat(list(values), n): every element n times in a row
RECURSIVE repeat(_, _)
repeat(values, n) ==
    IF values = <<>> THEN <<>>
    ELSE [k \in Range(n) |-> Head(values)] \o repeat(Tail(values), n)

\* np.tile(values, n): the whole list n times
RECURSIVE tile(_, _)
tile(values, n) ==
    IF n = 0 THEN <<>> ELSE values \o tile(values, n - 1)

\* array.reshape(-1) / reshape([-1, 4]): the first two axes run together
RECURSIVE flatten(_)
flatten(array) ==
    IF array = <<>> THEN <<>> ELSE Head(array) \o flatten(Tail(array))

\* np.meshgrid(x, y): <<center_x, center_y>>, both of shape (len(y), len(x))
meshgrid(x, y) ==
    <<[iy \in Range(Len(y)) |-> [ix \in Range(Len(x)) |-> x[ix]]],
      [iy \in Range(Len(y)) |-> [ix \in Range(Len(x)) |-> y[iy]]]>>

\* array.T of a 2-D array
transpose(array) ==
    [g \in Range(Len(array[1])) |-> [c \in Range(Len(array)) |-> array[c][g]]]

\* build_octaves with the scale index varying fastest (np.tile for np.repeat)
build_octaves_tiled(scales_count, ratios) ==
    LET octave == tile([s \in Range(scales_count) |-> s - 1], Len(ratios))
    IN  [k \in Range(Len(octave)) |-> <<octave[k], scales_count>>]

build_octaves(scales_count, ratios) ==
    LET octave == repeat([s \in Range(scales_count) |-> s - 1], Len(ratios))
    IN  [k \in Range(Len(octave)) |-> <<octave[k], scales_count>>]

build_aspect(ratios, scales_count) == tile(ratios, scales_count)

build_scales(scale_value, num_scale_aspect) ==
    repeat(<<scale_value>>, num_scale_aspect)

\* line 111 unpacking the first two entries of any longer shape
build_strides_raises_short(shape) == Len(shape) < 2

\* line 111, `base_feature_H, base_feature_W = image_shape` raising ValueError
build_strides_raises(shape) == Len(shape) # 2

\* build_strides dividing each image dimension by the other feature dimension
build_strides_crossed(arg, shape, branch_shapes, num_scale_aspect) ==
    LET base_feature_H == shape[1]
        base_feature_W == shape[2]
        feature_H      == branch_shapes[arg][2]
        feature_W      == branch_shapes[arg][3]
    IN  <<repeat(<<<<base_feature_W, feature_H>>>>, num_scale_aspect),
          repeat(<<<<base_feature_H, feature_W>>>>, num_scale_aspect)>>

\* returns <<strides_y, strides_x>>
build_strides(arg, shape, branch_shapes, num_scale_aspect) ==
    LET base_feature_H == shape[1]
        base_feature_W == shape[2]
        feature_H      == branch_shapes[arg][2]
        feature_W      == branch_shapes[arg][3]
    IN  <<repeat(<<<<base_feature_H, feature_H>>>>, num_scale_aspect),
          repeat(<<<<base_feature_W, feature_W>>>>, num_scale_aspect)>>

\* line 137 unpacking the shape as H, W
unpack_H_W(shape) == <<shape[2], shape[1]>>

\* line 137, `W, H = image_shape`: returns <<W, H>>
unpack_W_H(shape) == <<shape[1], shape[2]>>

\* returns the 4 x G array (x_min, y_min, x_max, y_max); a coordinate is the
\* centre, the sign and the extent that is added to it
compute_box_coordinates(shape, stride_y, stride_x, octave_scale, aspect, s) ==
    LET W == unpack_W_H(shape)[1]
        H == unpack_W_H(shape)[2]
        anchor_W == [scale |-> s, stride |-> stride_x,
                     octave |-> octave_scale, aspect |-> aspect,
                     aspect_power |-> "sqrt", half |-> 2, norm |-> H]
        anchor_H == [scale |-> s, stride |-> stride_y,
                     octave |-> octave_scale, aspect |-> aspect,
                     aspect_power |-> "1/sqrt", half |-> 2, norm |-> W]
        x == arange(RDivInt(stride_x, 2), H, stride_x)
        y == arange(RDivInt(stride_y, 2), W, stride_y)
        grid == meshgrid(x, y)
        flat_x == flatten(grid[1])
        flat_y == flatten(grid[2])
        center_x == [g \in Range(Len(flat_x)) |-> RDivInt(flat_x[g], H)]
        center_y == [g \in Range(Len(flat_y)) |-> RDivInt(flat_y[g], W)]
    IN  <<[g \in Range(Len(center_x)) |->
              [center |-> center_x[g], sign |-> -1, extent |-> anchor_W]],
          [g \in Range(Len(center_y)) |->
              [center |-> center_y[g], sign |-> -1, extent |-> anchor_H]],
          [g \in Range(Len(center_x)) |->
              [center |-> center_x[g], sign |-> 1, extent |-> anchor_W]],
          [g \in Range(Len(center_y)) |->
              [center |-> center_y[g], sign |-> 1, extent |-> anchor_H]]>>

\* zip(...) yields no configuration and np.concatenate([]) raises ValueError
build_branch_boxes_raises(stride_y, stride_x, octave, aspect, scales) ==
    Min(Min(Min(Len(stride_y), Len(stride_x)), Min(Len(octave), Len(aspect))),
        Len(scales)) = 0

\* returns the (G, K, 4) array: grid point, box shape, coordinate
build_branch_boxes(stride_y, stride_x, octave, aspect, scales, shape) ==
    LET K == Min(Min(Min(Len(stride_y), Len(stride_x)),
                     Min(Len(octave), Len(aspect))), Len(scales))
        boxes_T == [k \in Range(K) |->
                      transpose(compute_box_coordinates(
                          shape, stride_y[k], stride_x[k], octave[k],
                          aspect[k], scales[k]))]
    IN  [g \in Range(Len(boxes_T[1])) |-> [k \in Range(K) |-> boxes_T[k][g]]]

\* paz.backend.boxes.to_center_form on one corner-form row
\* (x_min, y_min, x_max, y_max): centre = (min + max) / 2, size = max - min
to_center_form(row) ==
    [center_x |-> row[1].center,
     center_y |-> row[2].center,
     W |-> [extent |-> row[3].extent, times |-> row[3].sign - row[1].sign],
     H |-> [extent |-> row[4].extent, times |-> row[4].sign - row[2].sign]]

----------------------------------------------------------------------------
(* build_anchors, one branch at a time *)

\* Shapes.load_sample is not running
ShapesIdle ==
    /\ pc = "idle"
    /\ class_names = <<>>
    /\ image_size = <<>>
    /\ max_num_shapes = 0
    /\ iou_thresh = <<>>
    /\ N = 0
    /\ shapes = <<>>
    /\ boxes = <<>>
    /\ class_masks = <<>>
    /\ masks = <<>>
    /\ box_data = <<>>

InitAnchors ==
    /\ a_pc = "loop"
    /\ image_shape \in ImageShapes
    /\ branches \in UNION {[Range(n) -> FeatureShapes] : n \in 0..MaxBranches}
    /\ num_scales \in 1..MaxScales
    /\ aspect_ratios \in AspectRatioLists
    /\ scale \in Scales
    /\ branch_arg = 1
    /\ anchor_boxes = <<>>
    /\ anchors = <<>>
    /\ ShapesIdle
    /\ DetectIdle

\* line 18
num_scale_aspect == num_scales * Len(aspect_ratios)

\* lines 21-29, one iteration of the loop
BuildBranch ==
    /\ a_pc = "loop"
    /\ branch_arg <= Len(branches)
    /\ ~build_strides_raises(image_shape)
    /\ LET stride == build_strides(branch_arg, image_shape, branches,
                                   num_scale_aspect)
           octave == build_octaves(num_scales, aspect_ratios)
           aspect == build_aspect(aspect_ratios, num_scales)
           scales == build_scales(scale, num_scale_aspect)
           stride_y == stride[1]
           stride_x == stride[2]
       IN  /\ ~build_branch_boxes_raises(stride_y, stride_x, octave, aspect,
                                         scales)
           /\ anchor_boxes' =
                 Append(anchor_boxes,
                        flatten(build_branch_boxes(stride_y, stride_x, octave,
                                                   aspect, scales,
                                                   image_shape)))
    /\ branch_arg' = branch_arg + 1
    /\ UNCHANGED <<a_pc, image_shape, branches, num_scales, aspect_ratios,
                   scale, anchors>>
    /\ UNCHANGED <<shapeVars, detectVars>>

\* line 22, the unpacking in build_strides raising ValueError, or lines
\* 27-28, np.concatenate raising ValueError inside build_branch_boxes
BuildBranchRaises ==
    /\ a_pc = "loop"
    /\ branch_arg <= Len(branches)
    /\ IF build_strides_raises(image_shape)
       THEN TRUE
       ELSE LET stride == build_strides(branch_arg, image_shape, branches,
                                        num_scale_aspect)
            IN  build_branch_boxes_raises(
                    stride[1], stride[2],
                    build_octaves(num_scales, aspect_ratios),
                    build_aspect(aspect_ratios, num_scales),
                    build_scales(scale, num_scale_aspect))
    /\ a_pc' = "ValueError"
    /\ UNCHANGED <<image_shape, branches, num_scales, aspect_ratios, scale,
                   branch_arg, anchor_boxes, anchors>>
    /\ UNCHANGED <<shapeVars, detectVars>>

\* lines 30-31
ReturnAnchors ==
    /\ a_pc = "loop"
    /\ branch_arg > Len(branches)
    /\ anchor_boxes # <<>>
    /\ LET corner_form == flatten(anchor_boxes)
       IN  anchors' = [r \in Range(Len(corner_form)) |->
                          to_center_form(corner_form[r])]
    /\ a_pc' = "done"
    /\ UNCHANGED <<image_shape, branches, num_scales, aspect_ratios, scale,
                   branch_arg, anchor_boxes>>
    /\ UNCHANGED <<shapeVars, detectVars>>

\* line 30, np.concatenate([]) raising ValueError
ReturnAnchorsRaises ==
    /\ a_pc = "loop"
    /\ branch_arg > Len(branches)
    /\ anchor_boxes = <<>>
    /\ a_pc' = "ValueError"
    /\ UNCHANGED <<image_shape, branches, num_scales, aspect_ratios, scale,
                   branch_arg, anchor_boxes, anchors>>
    /\ UNCHANGED <<shapeVars, detectVars>>

NextAnchors ==
    \/ BuildBranch
    \/ BuildBranchRaises
    \/ ReturnAnchors
    \/ ReturnAnchorsRaises

SpecAnchors == InitAnchors /\ [][NextAnchors]_vars

----------------------------------------------------------------------------
(* examples/efficientdet/detection.py.  A callable is a record naming the  *)
(* processor and the arguments it was built with; what a callable returns  *)
(* is the record of the callable and the arguments it was applied to.  The *)
(* instance `self` is the function from the names of the attributes that   *)
(* are set to their values: reading an attribute outside DOMAIN self       *)
(* raises AttributeError.                                                  *)

None == [processor |-> "None", arguments |-> <<>>]

Models == {"EFFICIENTDETD0", "EFFICIENTDETD1"}

Images == {"image_a", "image_b"}

\* callables a caller can pass as preprocess / postprocess
Preprocessors == {[processor |-> "custom_preprocess", arguments |-> <<>>]}

Postprocessors == {[processor |-> "custom_postprocess", arguments |-> <<>>]}

ScoreThresholds == {<<3, 5>>, <<1, 2>>}

NmsThresholds == {<<9, 20>>}

\* what the Keras model can return: outputs[0], one row per box holding
\* (y_min, x_min, y_max, x_max, class score)
ModelOutputs == {<< >>, <<<<1, 2, 3, 4, 9>>>>, <<<<1, 2, 3, 4, 9>>, <<5, 6, 7, 8, 1>>>>}

EfficientDetPreprocess(m) ==
    [processor |-> "EfficientDetPreprocess", arguments |-> <<m>>]

EfficientDetPostprocess(m, score, nms) ==
    [processor |-> "EfficientDetPostprocess", arguments |-> <<m, score, nms>>]

DrawBoxes2D == [processor |-> "DrawBoxes2D", arguments |-> <<>>]

WrapOutput == [processor |-> "WrapOutput", arguments |-> <<"image", "boxes2D">>]

\* callable(*args)
apply(callable, args) == [callable |-> callable, args |-> args]

\* obj.name = value
setattr(obj, name, value) ==
    [a \in DOMAIN obj \cup {name} |-> IF a = name THEN value ELSE obj[a]]

\* DetectSingleShotEfficientDet.__init__: the instance it leaves
init(m, score, nms, pre, post, d) ==
    LET s1 == setattr(<< >>, "model", m)
        s2 == setattr(s1, "draw", d)
        s3 == setattr(s2, "draw_boxes2D", DrawBoxes2D)
        s4 == setattr(s3, "wrap", WrapOutput)
        s5 == IF pre = None
              THEN setattr(s4, "preprocess", EfficientDetPreprocess(m))
              ELSE s4
        s6 == IF post = None
              THEN setattr(s5, "postprocess", EfficientDetPostprocess(m, score, nms))
              ELSE s5
    IN  s6

\* rows (y_min, x_min, y_max, x_max, classes...) to
\* (x_min, y_min, x_max, y_max, classes...)
change_box_coordinates(rows) ==
    [i \in DOMAIN rows |->
        <<rows[i][2], rows[i][1], rows[i][4], rows[i][3]>>
            \o SubSeq(rows[i], 5, Len(rows[i]))]

InitDetect ==
    /\ d_pc = "start"
    /\ model \in Models
    /\ score_thresh \in ScoreThresholds
    /\ nms_thresh \in NmsThresholds
    /\ preprocess \in {None} \cup Preprocessors
    /\ postprocess \in {None} \cup Postprocessors
    /\ draw \in BOOLEAN
    /\ self = << >>
    /\ call_image \in Images
    /\ preprocessed_image = << >>
    /\ image_scales = << >>
    /\ outputs = << >>
    /\ boxes2D = << >>
    /\ returned = << >>
    /\ ShapesIdle
    /\ AnchorsIdle

\* detection.py lines 32-43
Construct ==
    /\ d_pc = "start"
    /\ self' = init(model, score_thresh, nms_thresh, preprocess, postprocess, draw)
    /\ d_pc' = "constructed"
    /\ UNCHANGED <<model, score_thresh, nms_thresh, preprocess, postprocess,
                   draw, call_image, preprocessed_image, image_scales,
                   outputs, boxes2D, returned>>
    /\ UNCHANGED <<shapeVars, anchorVars>>

\* line 46
CallPreprocess ==
    /\ d_pc = "constructed"
    /\ "preprocess" \in DOMAIN self
    /\ LET result == apply(self["preprocess"], <<call_image>>)
       IN  /\ preprocessed_image' = <<result, "image">>
           /\ image_scales' = <<result, "scale">>
    /\ d_pc' = "preprocessed"
    /\ UNCHANGED <<model, score_thresh, nms_thresh, preprocess, postprocess,
                   draw, self, call_image, outputs, boxes2D, returned>>
    /\ UNCHANGED <<shapeVars, anchorVars>>

\* line 46, self.preprocess is not set
CallPreprocessRaises ==
    /\ d_pc = "constructed"
    /\ "preprocess" \notin DOMAIN self
    /\ d_pc' = "AttributeError"
    /\ UNCHANGED <<model, score_thresh, nms_thresh, preprocess, postprocess,
                   draw, self, call_image, preprocessed_image, image_scales,
                   outputs, boxes2D, returned>>
    /\ UNCHANGED <<shapeVars, anchorVars>>

\* lines 47-48
CallModel ==
    /\ d_pc = "preprocessed"
    /\ \E rows \in ModelOutputs : outputs' = change_box_coordinates(rows)
    /\ d_pc' = "predicted"
    /\ UNCHANGED <<model, score_thresh, nms_thresh, preprocess, postprocess,
                   draw, self, call_image, preprocessed_image, image_scales,
                   boxes2D, returned>>
    /\ UNCHANGED <<shapeVars, anchorVars>>

\* line 49
CallPostprocess ==
    /\ d_pc = "predicted"
    /\ "postprocess" \in DOMAIN self
    /\ boxes2D' = <<apply(self["postprocess"], <<outputs, image_scales>>)>>
    /\ d_pc' = "postprocessed"
    /\ UNCHANGED <<model, score_thresh, nms_thresh, preprocess, postprocess,
                   draw, self, call_image, preprocessed_image, image_scales,
                   outputs, returned>>
    /\ UNCHANGED <<shapeVars, anchorVars>>

\* line 49, self.postprocess is not set
CallPostprocessRaises ==
    /\ d_pc = "predicted"
    /\ "postprocess" \notin DOMAIN self
    /\ d_pc' = "AttributeError"
    /\ UNCHANGED <<model, score_thresh, nms_thresh, preprocess, postprocess,
                   draw, self, call_image, preprocessed_image, image_scales,
                   outputs, boxes2D, returned>>
    /\ UNCHANGED <<shapeVars, anchorVars>>

\* lines 50-52
CallDrawAndWrap ==
    /\ d_pc = "postprocessed"
    /\ LET image == IF self["draw"]
                    THEN <<apply(self["draw_boxes2D"], <<call_image, boxes2D[1]>>)>>
                    ELSE <<call_image>>
       IN  returned' = <<apply(self["wrap"], <<image, boxes2D[1]>>)>>
    /\ d_pc' = "done"
    /\ UNCHANGED <<model, score_thresh, nms_thresh, preprocess, postprocess,
                   draw, self, call_image, preprocessed_image, image_scales,
                   outputs, boxes2D>>
    /\ UNCHANGED <<shapeVars, anchorVars>>

NextDetect ==
    \/ Construct
    \/ CallPreprocess
    \/ CallPreprocessRaises
    \/ CallModel
    \/ CallPostprocess
    \/ CallPostprocessRaises
    \/ CallDrawAndWrap

SpecDetect == InitDetect /\ [][NextDetect]_vars

----------------------------------------------------------------------------
(* Properties of build_anchors *)

\* rows of one level: feature_H * feature_W * num_scales * len(aspect_ratios)
LevelRows(b) ==
    branches[b][2] * branches[b][3] * num_scales * Len(aspect_ratios)

RECURSIVE RowsBefore(_)
\* rows of the levels before level b
RowsBefore(b) == IF b = 1 THEN 0 ELSE RowsBefore(b - 1) + LevelRows(b - 1)

\* C1: the returned array has sum over branches of
\* feature_H * feature_W * num_scales * len(aspect_ratios) rows.
C1_AnchorCount ==
    a_pc = "done" => Len(anchors) = RowsBefore(Len(branches) + 1)

\* anchors were returned for a non-square image and a non-square feature map
C1_Witness ==
    /\ a_pc = "done"
    /\ image_shape[1] # image_shape[2]
    /\ Len(branches) >= 2
    /\ \E b \in DOMAIN branches : branches[b][2] # branches[b][3]
    /\ Len(anchors) > 0

\* C2: rows are ordered level outermost, grid point in the middle (y-centre
\* index outer, x-centre index inner) and box shape innermost; box shape i
\* has octave floor(i / len(aspect_ratios)) / num_scales and aspect ratio
\* aspect_ratios[i mod len(aspect_ratios)].
C2_RowOrder ==
    a_pc = "done" =>
        \A b \in DOMAIN branches :
            \A r \in 0..(LevelRows(b) - 1) :
                LET K     == num_scales * Len(aspect_ratios)
                    row   == anchors[RowsBefore(b) + r + 1]
                    point == r \div K
                    shape == r % K
                    iy    == point \div branches[b][3]
                    ix    == point % branches[b][3]
                IN  /\ REq(row.center_x, <<2 * ix + 1, 2 * branches[b][3]>>)
                    /\ REq(row.center_y, <<2 * iy + 1, 2 * branches[b][2]>>)
                    /\ row.W.extent.octave
                           = <<shape \div Len(aspect_ratios), num_scales>>
                    /\ row.H.extent.octave
                           = <<shape \div Len(aspect_ratios), num_scales>>
                    /\ row.W.extent.aspect
                           = aspect_ratios[(shape % Len(aspect_ratios)) + 1]
                    /\ row.H.extent.aspect
                           = aspect_ratios[(shape % Len(aspect_ratios)) + 1]
                    /\ row.W.extent.stride
                           = <<image_shape[2], branches[b][3]>>
                    /\ row.H.extent.stride
                           = <<image_shape[1], branches[b][2]>>

\* anchors were returned for two levels, a grid of several rows and columns
\* and several scales and aspect ratios
C2_Witness ==
    /\ a_pc = "done"
    /\ Len(branches) >= 2
    /\ num_scales >= 2
    /\ Len(aspect_ratios) >= 2
    /\ \E b \in DOMAIN branches : branches[b][2] >= 2 /\ branches[b][3] >= 3

\* image_shape is not a 2-tuple, or branches or aspect_ratios is empty
InvalidConfiguration ==
    \/ Len(image_shape) # 2
    \/ branches = <<>>
    \/ aspect_ratios = <<>>

\* C11 as stated: a call with a malformed image_shape, no branches or no
\* aspect ratios ends with an InvalidConfiguration error, no anchor array
\* built and none returned.
C11_FailsWithInvalidConfiguration ==
    (a_pc # "idle" /\ InvalidConfiguration) =>
        /\ a_pc \in {"loop", "InvalidConfiguration"}
        /\ anchor_boxes = <<>>
        /\ anchors = <<>>

\* C11 amended: such a call ends with a ValueError (the unpacking of
\* build_strides or np.concatenate of an empty list), no anchor array built
\* and none returned.
C11_FailsWithValueError ==
    (a_pc # "idle" /\ InvalidConfiguration) =>
        /\ a_pc \in {"loop", "ValueError"}
        /\ a_pc = "loop" => branch_arg = 1
        /\ anchor_boxes = <<>>
        /\ anchors = <<>>

\* a call with a 3-tuple image_shape and several branches has failed
C11_Witness ==
    /\ a_pc = "ValueError"
    /\ Len(image_shape) = 3
    /\ Len(branches) >= 2
    /\ aspect_ratios # <<>>

\* the rows of level b in the returned array
LevelOf(b) == {anchors[RowsBefore(b) + r] : r \in 1..LevelRows(b)}

\* the values image / feature * (k + 1/2) below `stop`, each divided by
\* `stop`: stride / 2, stride / 2 + stride, ... for stride = image / feature
Centres(image, feature, stop) ==
    {<<(2 * k + 1) * image, 2 * feature * stop>> :
        k \in {n \in 0..(feature * stop) :
                 (2 * n + 1) * image < 2 * feature * stop}}

\* the rationals of `values` and of `expected` are the same numbers
SameNumbers(values, expected) ==
    /\ \A v \in values : \E e \in expected : REq(v, e)
    /\ \A e \in expected : \E v \in values : REq(v, e)

\* C12 as stated: with image_shape = (image_H, image_W) the x-centres are
\* the multiples-and-a-half of stride_x below image_H divided by image_H, the
\* y-centres those of stride_y below image_W divided by image_W, the
\* half-width is divided by image_H and the half-height by image_W.
C12_CrossAxisNormalisation ==
    a_pc = "done" =>
        \A b \in DOMAIN branches :
            LET image_H == image_shape[1]
                image_W == image_shape[2]
                level   == LevelOf(b)
            IN  /\ SameNumbers({row.center_x : row \in level},
                               Centres(image_W, branches[b][3], image_H))
                /\ SameNumbers({row.center_y : row \in level},
                               Centres(image_H, branches[b][2], image_W))
                /\ \A row \in level : /\ row.W.extent.norm = image_H
                                      /\ row.H.extent.norm = image_W

\* C12 amended: the x-centres are the multiples-and-a-half of stride_x
\* below image_W divided by image_W, the y-centres those of stride_y below
\* image_H divided by image_H, the half-width is divided by image_W and the
\* half-height by image_H.
C12_SameAxisNormalisation ==
    a_pc = "done" =>
        \A b \in DOMAIN branches :
            LET image_H == image_shape[1]
                image_W == image_shape[2]
                level   == LevelOf(b)
            IN  /\ SameNumbers({row.center_x : row \in level},
                               Centres(image_W, branches[b][3], image_W))
                /\ SameNumbers({row.center_y : row \in level},
                               Centres(image_H, branches[b][2], image_H))
                /\ \A row \in level :
                      /\ row.W.extent.norm = image_W
                      /\ row.H.extent.norm = image_H
                      /\ row.W.extent.stride = <<image_W, branches[b][3]>>
                      /\ row.H.extent.stride = <<image_H, branches[b][2]>>

\* anchors were returned for an image higher than wide and a level whose
\* strides are not integers
C12_Witness ==
    /\ a_pc = "done"
    /\ image_shape[1] > image_shape[2]
    /\ \E b \in DOMAIN branches :
          /\ image_shape[1] % branches[b][2] # 0
          /\ image_shape[2] % branches[b][3] # 0

----------------------------------------------------------------------------
(* Properties of Shapes.load_sample *)

Filtered == pc \in {"filtered", "done"}

MasksDrawn == pc = "done"

\* the channels as rasterised, before the occlusion loop
rasterised == class_masks

\* C3: after the occlusion loop no pixel is 1 in two different mask
\* channels.
C3_MasksDisjoint ==
    MasksDrawn =>
        \A i, j \in DOMAIN masks : i < j => masks[i] \cap masks[j] = {}

\* two retained shapes were rasterised over a common pixel
C3_Witness ==
    /\ pc = "done"
    /\ \E i, j \in DOMAIN masks :
          i < j /\ rasterised[i] \cap rasterised[j] # {}

\* C4: the final channel i is the rasterised channel i minus the union of
\* the rasterised channels after it; the highest-indexed non-empty channel
\* is left as rasterised.
C4_LowerChannelLoses ==
    MasksDrawn =>
        LET raw == rasterised
        IN  /\ \A i \in DOMAIN masks :
                  masks[i] = raw[i] \ UNION {raw[j] : j \in (i + 1)..Len(raw)}
            /\ \A i \in DOMAIN masks :
                  (raw[i] # {} /\ \A j \in (i + 1)..Len(raw) : raw[j] = {})
                      => masks[i] = raw[i]

\* a channel lost some but not all of its pixels to a later channel
C4_Witness ==
    /\ pc = "done"
    /\ \E i \in DOMAIN masks :
          masks[i] # {} /\ masks[i] # rasterised[i]

\* C5 as stated: a pixel rasterised in channels i < j stays 1 in the
\* earlier channel i and is 0 in the later channel j.
C5_EarlierTakesPriority ==
    MasksDrawn =>
        LET raw == rasterised
        IN  \A i, j \in DOMAIN masks :
                i < j => /\ (raw[i] \cap raw[j]) \subseteq masks[i]
                         /\ (raw[i] \cap raw[j]) \cap masks[j] = {}

\* C5 amended: a pixel rasterised in channels i < j is 0 in the earlier
\* channel i, and is 1 in the later channel j unless a channel after j
\* was rasterised over it as well.
C5_LaterTakesPriority ==
    MasksDrawn =>
        LET raw == rasterised
        IN  \A i, j \in DOMAIN masks :
                i < j =>
                    /\ (raw[i] \cap raw[j]) \cap masks[i] = {}
                    /\ ((raw[i] \cap raw[j])
                           \ UNION {raw[k] : k \in (j + 1)..Len(raw)})
                       \subseteq masks[j]

\* a contested pixel ended up in the later channel
C5_Witness ==
    /\ pc = "done"
    /\ \E i, j \in DOMAIN masks :
          /\ i < j
          /\ rasterised[i] \cap rasterised[j] # {}
          /\ (rasterised[i] \cap rasterised[j]) \subseteq masks[j]

\* C6: box_data has as many rows as there are mask channels holding a 1.
C6_RowsEqualNonEmptyChannels ==
    pc = "done" =>
        Len(box_data) = Cardinality({k \in DOMAIN masks : masks[k] # {}})

\* C7: every sampled shape's bounding box lies inside the canvas.
C7_ShapesInsideCanvas ==
    pc = "sampled" =>
        \A k \in DOMAIN shapes :
            LET box == compute_bounding_box(shapes[k][2][1], shapes[k][2][2],
                                            shapes[k][2][3])
            IN  /\ 0 <= box[1]
                /\ 0 <= box[2]
                /\ box[3] <= image_size[2] - 1
                /\ box[4] <= image_size[1] - 1

\* C8: with image_size = (64, 64), max_num_shapes = 2 and iou_thresh = 0.3
\* load_sample does not raise.
C8_SmallImageCompletes ==
    (/\ image_size = <<64, 64>>
     /\ class_names = all_class_names
     /\ max_num_shapes = 2
     /\ iou_thresh = <<3, 10>>) => pc # "ValueError"

\* C9: _filter_shapes applied to the shapes and boxes it retained, with the
\* same threshold, retains all of them in the same order.
C9_FilterIdempotent ==
    Filtered => filter_shapes(boxes, shapes, iou_thresh) = <<shapes, boxes>>

\* the filter dropped a sampled shape
C9_Witness ==
    /\ pc = "filtered"
    /\ Len(shapes) < N

\* C10: between 1 and max_num_shapes shapes are retained, masks has
\* max_num_shapes channels and the channels past the retained count are
\* all zero.
C10_RetainedWithinChannels ==
    /\ Filtered => (1 <= Len(shapes) /\ Len(shapes) <= max_num_shapes)
    /\ MasksDrawn =>
          /\ Len(masks) = max_num_shapes
          /\ \A k \in DOMAIN masks : k > Len(shapes) => masks[k] = {}

\* fewer shapes than channels were retained
C10_Witness ==
    /\ pc = "done"
    /\ Len(shapes) < max_num_shapes
    /\ Len(masks) = max_num_shapes

----------------------------------------------------------------------------
(* Properties of DetectSingleShotEfficientDet *)

Constructed == d_pc \notin {"idle", "start"}

\* C13: once the detector is constructed its preprocess and postprocess
\* attributes are set, a callable passed by the caller is the one stored and
\* the default is stored exactly when the argument is None, and call never
\* reads an attribute that is not set.
C13_ProcessorsAlwaysSet ==
    Constructed =>
        /\ {"preprocess", "postprocess"} \subseteq DOMAIN self
        /\ self["preprocess"] = IF preprocess = None
                                THEN EfficientDetPreprocess(model)
                                ELSE preprocess
        /\ self["postprocess"] =
              IF postprocess = None
              THEN EfficientDetPostprocess(model, score_thresh, nms_thresh)
              ELSE postprocess
        /\ d_pc # "AttributeError"

====
